---- MODULE Spec2Model ----
(***************************************************************************)
(* Model of main.c of the PMOD_COLOR program: the colour classifier        *)
(* (Detect_Color, Hold_Color), the target pattern (Generate_Random_Pattern,*)
(* Show_Pattern), the sequence matcher (CheckPattern) and the control loop *)
(* of main.                                                                *)
(***************************************************************************)
EXTENDS Integers, Sequences, FiniteSets, TLC

VARIABLES
    pattern,      \* Color_t pattern[PATTERN_LENGTH], indexed 0..PATTERN_LENGTH-1
    index,        \* static int index of CheckPattern
    failCount,    \* static int failCount of CheckPattern
    R, G, B,      \* uint16_t R, G, B of main
    detect,       \* Color_t detect of main (the value given to CheckPattern)
    result,       \* int result of main (the value CheckPattern returned)
    held,         \* TRUE iff the last Hold_Color ran Clock_Delay1ms(1000)
    led,          \* the colour last given to LED2_Output
    motor,        \* the last motor command
    i,            \* loop counter of Show_Pattern
    pc,           \* position of main
    hist,         \* the CheckPattern calls made by the sequence driver, oldest first
    shown,        \* what the LED showed in the last run of Show_Pattern, in order
    SysTick_ms_elapsed,   \* uint32_t SysTick_ms_elapsed
    collision_detected,   \* uint8_t collision_detected
    P8_OUT,       \* P8->OUT, 8 bits
    ticks         \* the number of SysTick interrupts taken

\* the variables main and the functions it calls write
mainVars == <<pattern, index, failCount, R, G, B, detect, result, held, led, motor, i, pc, hist, shown>>

\* the variables SysTick_Handler reads and writes
tickVars == <<SysTick_ms_elapsed, collision_detected, P8_OUT, ticks>>

vars == <<mainVars, tickVars>>

----------------------------------------------------------------------------
(* Color_t and the pattern *)

COLOR_GREEN == 0
COLOR_RED == 1
COLOR_YELLOW == 2
COLOR_UNKNOWN == 3

Color_t == {COLOR_GREEN, COLOR_RED, COLOR_YELLOW, COLOR_UNKNOWN}

PATTERN_LENGTH == 4

PatternIndex == 0 .. (PATTERN_LENGTH - 1)

UINT16_MAX == 65535

----------------------------------------------------------------------------
(* Bounds of the model *)

\* rand() returns a value of 0 .. MaxRand
MaxRand == 3

\* hist keeps the last MaxHist calls of CheckPattern
MaxHist == 4

\* SysTick_Handler runs at most MaxTicks times
MaxTicks == 2

\* every channel level of Levels lies within Spread of a threshold of BaseLevels
Spread == 1

\* the channel values around which the classifier's comparisons change
BaseLevels == {0, 1000, 3000, 6000, 8192, 11192, 12288, 18288, 59535, 62535, 63000, 65535}

Levels == {b + d : b \in BaseLevels, d \in (0 - Spread) .. Spread} \cap (0 .. UINT16_MAX)

\* the channel values the sensor gives to the control loop
SampleLevels == {0, 9000, 20000}

----------------------------------------------------------------------------
(* Detect_Color *)

\* the green test with >= for >
IsGreen_Weak(r, g, b) == g >= r + 3000 /\ g >= b + 3000

\* the green test with the sums r + 3000 and b + 3000 wrapping at 16 bits
IsGreen_Wrap16(r, g, b) == g > (r + 3000) % 65536 /\ g > (b + 3000) % 65536

\* line 217: the uint16_t operands are promoted to int, the sums do not wrap
IsGreen(r, g, b) == g > r + 3000 /\ g > b + 3000

\* the yellow test with >= for > and <= for <
IsYellow_Weak(r, g, b) == r >= 8192 /\ g >= 8192 /\ b <= 12288

\* line 225: 0x2000 = 8192, 0x3000 = 12288
IsYellow(r, g, b) == r > 8192 /\ g > 8192 /\ b < 12288

\* line 233
IsRed(r, g, b) == r > g + 6000 /\ r > b + 6000

\* Detect_Color with the yellow test before the green test
Detect_Color_YellowFirst(r, g, b) ==
    IF IsYellow(r, g, b) THEN COLOR_YELLOW
    ELSE IF IsGreen(r, g, b) THEN COLOR_GREEN
    ELSE IF IsRed(r, g, b) THEN COLOR_RED
    ELSE COLOR_UNKNOWN

\* the value Detect_Color returns
Detect_Color(r, g, b) ==
    IF IsGreen(r, g, b) THEN COLOR_GREEN
    ELSE IF IsYellow(r, g, b) THEN COLOR_YELLOW
    ELSE IF IsRed(r, g, b) THEN COLOR_RED
    ELSE COLOR_UNKNOWN

\* the colour Detect_Color gives to LED2_Output
Detect_Color_LED(r, g, b) ==
    IF IsGreen(r, g, b) THEN "GREEN"
    ELSE IF IsYellow(r, g, b) THEN "YELLOW"
    ELSE IF IsRed(r, g, b) THEN "RED"
    ELSE "OFF"

\* the value Hold_Color returns
Hold_Color(r, g, b) ==
    LET color == Detect_Color(r, g, b)
    IN  IF color # COLOR_UNKNOWN THEN color ELSE COLOR_UNKNOWN

\* Hold_Color with the delay before the test of line 250
Hold_Color_Delay_Always(r, g, b) == TRUE

\* TRUE iff Hold_Color runs Clock_Delay1ms(1000)
Hold_Color_Delay(r, g, b) == Detect_Color(r, g, b) # COLOR_UNKNOWN

----------------------------------------------------------------------------
(* Generate_Random_Pattern, Show_Pattern *)

RandValues == 0 .. MaxRand

\* rand() % 4 for rand() % 3
RandColor_Mod4(rnd) == rnd % 4

\* pattern[k] = rand() % 3
RandColor(rnd) == rnd % 3

\* rnd[k] is the value rand() returns in iteration k
Generate_Random_Pattern(rnd) ==
    pattern' = [k \in PatternIndex |-> RandColor(rnd[k])]

\* the switch of Show_Pattern: no case for a value other than the three colours
Show_Pattern_LED(c, old) ==
    IF c = COLOR_GREEN THEN "GREEN"
    ELSE IF c = COLOR_RED THEN "RED"
    ELSE IF c = COLOR_YELLOW THEN "YELLOW"
    ELSE old

----------------------------------------------------------------------------
(* CheckPattern *)

\* CheckPattern without the test of line 302
IsNoise_Never(detected) == FALSE

\* line 302
IsNoise(detected) == detected = COLOR_UNKNOWN

\* the colour compared with the first colour of the pattern, whatever the index
IsExpected_First(detected) == detected = pattern[0]

\* line 306
IsExpected(detected) == detected = pattern[index]

\* the pattern taken as done one step early
PatternDone_Early(idx) == idx >= PATTERN_LENGTH - 1

\* the pattern taken as done one step late
PatternDone_Late(idx) == idx > PATTERN_LENGTH

\* line 311, on the index already incremented
PatternDone(idx) == idx = PATTERN_LENGTH

\* a hard failure at the first bad read
TooManyFails_One(fc) == fc >= 1

\* a hard failure at the third bad read only
TooManyFails_Three(fc) == fc > 2

\* line 324, on the failCount already incremented
TooManyFails(fc) == fc >= 2

\* CheckPattern without line 308 and line 327: failCount is never reset
CheckPattern_NoReset(detected) ==
    /\ UNCHANGED pattern
    /\ IF IsNoise(detected)
       THEN /\ result' = -1
            /\ UNCHANGED <<index, failCount>>
       ELSE IF IsExpected(detected)
       THEN /\ UNCHANGED failCount
            /\ IF PatternDone(index + 1)
               THEN index' = 0 /\ result' = 2
               ELSE index' = index + 1 /\ result' = 1
       ELSE IF TooManyFails(failCount + 1)
       THEN /\ index' = 0
            /\ failCount' = failCount + 1
            /\ result' = 0
       ELSE /\ failCount' = failCount + 1
            /\ result' = -1
            /\ UNCHANGED index

\* CheckPattern with an Unknown read clearing failCount
CheckPattern_NoiseClears(detected) ==
    /\ UNCHANGED pattern
    /\ IF IsNoise(detected)
       THEN /\ result' = -1
            /\ failCount' = 0
            /\ UNCHANGED index
       ELSE IF IsExpected(detected)
       THEN /\ failCount' = 0
            /\ IF PatternDone(index + 1)
               THEN index' = 0 /\ result' = 2
               ELSE index' = index + 1 /\ result' = 1
       ELSE IF TooManyFails(failCount + 1)
       THEN /\ index' = 0
            /\ failCount' = 0
            /\ result' = 0
       ELSE /\ failCount' = failCount + 1
            /\ result' = -1
            /\ UNCHANGED index

\* CheckPattern without line 308: a correct colour leaves failCount as it is
CheckPattern_KeepMiss(detected) ==
    /\ UNCHANGED pattern
    /\ IF IsNoise(detected)
       THEN /\ result' = -1
            /\ UNCHANGED <<index, failCount>>
       ELSE IF IsExpected(detected)
       THEN /\ UNCHANGED failCount
            /\ IF PatternDone(index + 1)
               THEN index' = 0 /\ result' = 2
               ELSE index' = index + 1 /\ result' = 1
       ELSE IF TooManyFails(failCount + 1)
       THEN /\ index' = 0
            /\ failCount' = 0
            /\ result' = 0
       ELSE /\ failCount' = failCount + 1
            /\ result' = -1
            /\ UNCHANGED index

\* the return value is left in result
CheckPattern(detected) ==
    /\ UNCHANGED pattern
    /\ IF IsNoise(detected)
       THEN /\ result' = -1
            /\ UNCHANGED <<index, failCount>>
       ELSE IF IsExpected(detected)
       THEN /\ failCount' = 0
            /\ IF PatternDone(index + 1)
               THEN index' = 0 /\ result' = 2
               ELSE index' = index + 1 /\ result' = 1
       ELSE IF TooManyFails(failCount + 1)
       THEN /\ index' = 0
            /\ failCount' = 0
            /\ result' = 0
       ELSE /\ failCount' = failCount + 1
            /\ result' = -1
            /\ UNCHANGED index

----------------------------------------------------------------------------
(* main *)

\* the state at line 143: globals zero-initialised, statics as declared
Init ==
    /\ pattern = [k \in PatternIndex |-> COLOR_GREEN]
    /\ index = 0
    /\ failCount = 0
    /\ R = 0 /\ G = 0 /\ B = 0
    /\ detect = COLOR_UNKNOWN
    /\ result = -1
    /\ held = FALSE
    /\ led = "OFF"
    /\ motor = "STOP"
    /\ i = 0
    /\ pc = "generate"
    /\ hist = <<>>
    /\ shown = <<>>
    /\ SysTick_ms_elapsed = 0
    /\ collision_detected = 0
    /\ P8_OUT = 0
    /\ ticks = 0

\* lines 143 and 190
Main_Generate ==
    /\ pc = "generate"
    /\ \E rnd \in [PatternIndex -> RandValues] : Generate_Random_Pattern(rnd)
    /\ pc' = "show"
    /\ i' = 0
    /\ shown' = <<>>
    /\ UNCHANGED <<index, failCount, R, G, B, detect, result, held, led, motor, hist>>
    /\ UNCHANGED tickVars

\* Show_Pattern, lines 276-291: the LED shows pattern[i]
Show_Pattern_On ==
    /\ pc = "show"
    /\ i < PATTERN_LENGTH
    /\ led' = Show_Pattern_LED(pattern[i], led)
    /\ shown' = Append(shown, led')
    /\ pc' = "show_gap"
    /\ UNCHANGED <<pattern, index, failCount, R, G, B, detect, result, held, motor, i, hist>>
    /\ UNCHANGED tickVars

\* Show_Pattern with the loop condition i < PATTERN_LENGTH - 1
Show_Pattern_Off_Short ==
    /\ pc = "show_gap"
    /\ led' = "OFF"
    /\ i' = i + 1
    /\ shown' = Append(shown, "OFF")
    /\ pc' = IF i + 1 < PATTERN_LENGTH - 1 THEN "show" ELSE "sample"
    /\ UNCHANGED <<pattern, index, failCount, R, G, B, detect, result, held, motor, hist>>
    /\ UNCHANGED tickVars

\* Show_Pattern, lines 292-294: the LED goes off, and the loop goes on or ends
Show_Pattern_Off ==
    /\ pc = "show_gap"
    /\ led' = "OFF"
    /\ i' = i + 1
    /\ shown' = Append(shown, "OFF")
    /\ pc' = IF i + 1 < PATTERN_LENGTH THEN "show" ELSE "sample"
    /\ UNCHANGED <<pattern, index, failCount, R, G, B, detect, result, held, motor, hist>>
    /\ UNCHANGED tickVars

\* lines 151-163
Main_Sample ==
    /\ pc = "sample"
    /\ R' \in SampleLevels
    /\ G' \in SampleLevels
    /\ B' \in SampleLevels
    /\ pc' = "hold"
    /\ UNCHANGED <<pattern, index, failCount, detect, result, held, led, motor, i, hist, shown>>
    /\ UNCHANGED tickVars

\* line 165
Main_Hold ==
    /\ pc = "hold"
    /\ detect' = Hold_Color(R, G, B)
    /\ held' = Hold_Color_Delay(R, G, B)
    /\ led' = Detect_Color_LED(R, G, B)
    /\ pc' = "check"
    /\ UNCHANGED <<pattern, index, failCount, R, G, B, result, motor, i, hist, shown>>
    /\ UNCHANGED tickVars

\* line 167
Main_Check ==
    /\ pc = "check"
    /\ CheckPattern(detect)
    /\ pc' = "dispatch"
    /\ UNCHANGED <<R, G, B, detect, held, led, motor, i, hist, shown>>
    /\ UNCHANGED tickVars

\* lines 169-172
Main_StepCorrect ==
    /\ pc = "dispatch"
    /\ result = 1
    /\ led' = "WHITE"
    /\ pc' = "step_off"
    /\ UNCHANGED <<pattern, index, failCount, R, G, B, detect, result, held, motor, i, hist, shown>>
    /\ UNCHANGED tickVars

\* lines 173-174
Main_StepCorrect_Off ==
    /\ pc = "step_off"
    /\ led' = "OFF"
    /\ pc' = "sample"
    /\ UNCHANGED <<pattern, index, failCount, R, G, B, detect, result, held, motor, i, hist, shown>>
    /\ UNCHANGED tickVars

\* lines 177-180
Main_Granted ==
    /\ pc = "dispatch"
    /\ result = 2
    /\ led' = "SKY_BLUE"
    /\ pc' = "granted_off"
    /\ UNCHANGED <<pattern, index, failCount, R, G, B, detect, result, held, motor, i, hist, shown>>
    /\ UNCHANGED tickVars

\* lines 181-182
Main_Granted_Off ==
    /\ pc = "granted_off"
    /\ led' = "OFF"
    /\ pc' = "granted_forward"
    /\ UNCHANGED <<pattern, index, failCount, R, G, B, detect, result, held, motor, i, hist, shown>>
    /\ UNCHANGED tickVars

\* line 184
Main_Granted_Forward ==
    /\ pc = "granted_forward"
    /\ motor' = "FORWARD"
    /\ pc' = "granted_backward"
    /\ UNCHANGED <<pattern, index, failCount, R, G, B, detect, result, held, led, i, hist, shown>>
    /\ UNCHANGED tickVars

\* lines 185-186
Main_Granted_Backward ==
    /\ pc = "granted_backward"
    /\ motor' = "BACKWARD"
    /\ pc' = "granted_stop"
    /\ UNCHANGED <<pattern, index, failCount, R, G, B, detect, result, held, led, i, hist, shown>>
    /\ UNCHANGED tickVars

\* lines 187-188
Main_Granted_Stop ==
    /\ pc = "granted_stop"
    /\ motor' = "STOP"
    /\ pc' = "generate"
    /\ UNCHANGED <<pattern, index, failCount, R, G, B, detect, result, held, led, i, hist, shown>>
    /\ UNCHANGED tickVars

\* lines 193-196
Main_Wrong ==
    /\ pc = "dispatch"
    /\ result = 0
    /\ led' = "PINK"
    /\ pc' = "wrong_off"
    /\ UNCHANGED <<pattern, index, failCount, R, G, B, detect, result, held, motor, i, hist, shown>>
    /\ UNCHANGED tickVars

\* lines 197-200
Main_Wrong_Off ==
    /\ pc = "wrong_off"
    /\ led' = "OFF"
    /\ pc' = "wrong_left"
    /\ UNCHANGED <<pattern, index, failCount, R, G, B, detect, result, held, motor, i, hist, shown>>
    /\ UNCHANGED tickVars

\* line 201
Main_Wrong_Left ==
    /\ pc = "wrong_left"
    /\ motor' = "LEFT"
    /\ pc' = "wrong_right"
    /\ UNCHANGED <<pattern, index, failCount, R, G, B, detect, result, held, led, i, hist, shown>>
    /\ UNCHANGED tickVars

\* lines 202-203
Main_Wrong_Right ==
    /\ pc = "wrong_right"
    /\ motor' = "RIGHT"
    /\ pc' = "wrong_stop"
    /\ UNCHANGED <<pattern, index, failCount, R, G, B, detect, result, held, led, i, hist, shown>>
    /\ UNCHANGED tickVars

\* the HardFail branch with a new pattern generated before it is shown
Main_Wrong_Stop_Regenerate ==
    /\ pc = "wrong_stop"
    /\ motor' = "STOP"
    /\ pc' = "generate"
    /\ UNCHANGED <<pattern, index, failCount, R, G, B, detect, result, held, led, i, hist, shown>>
    /\ UNCHANGED tickVars

\* the HardFail branch without the Motor_Stop of line 205
Main_Wrong_Stop_NoStop ==
    /\ pc = "wrong_stop"
    /\ pc' = "show"
    /\ i' = 0
    /\ shown' = <<>>
    /\ UNCHANGED <<pattern, index, failCount, R, G, B, detect, result, held, led, motor, hist>>
    /\ UNCHANGED tickVars

\* lines 204-207: Motor_Stop, then Show_Pattern of the same pattern
Main_Wrong_Stop ==
    /\ pc = "wrong_stop"
    /\ motor' = "STOP"
    /\ pc' = "show"
    /\ i' = 0
    /\ shown' = <<>>
    /\ UNCHANGED <<pattern, index, failCount, R, G, B, detect, result, held, led, hist>>
    /\ UNCHANGED tickVars

\* no branch of lines 169-208 is taken: result is -1
Main_Ignore ==
    /\ pc = "dispatch"
    /\ result \notin {0, 1, 2}
    /\ pc' = "sample"
    /\ UNCHANGED <<pattern, index, failCount, R, G, B, detect, result, held, led, motor, i, hist, shown>>
    /\ UNCHANGED tickVars

Next ==
    \/ Main_Generate
    \/ Show_Pattern_On
    \/ Show_Pattern_Off
    \/ Main_Sample
    \/ Main_Hold
    \/ Main_Check
    \/ Main_StepCorrect
    \/ Main_StepCorrect_Off
    \/ Main_Granted
    \/ Main_Granted_Off
    \/ Main_Granted_Forward
    \/ Main_Granted_Backward
    \/ Main_Granted_Stop
    \/ Main_Wrong
    \/ Main_Wrong_Off
    \/ Main_Wrong_Left
    \/ Main_Wrong_Right
    \/ Main_Wrong_Stop
    \/ Main_Ignore

Spec == Init /\ [][Next]_vars

----------------------------------------------------------------------------
(* SysTick_Handler, and main with the interrupt taken between its steps *)

\* SysTick_ms_elapsed++ never wraps: with collision_detected = 0, which no line
\* of main.c changes, the counter is set back to 0 at 500
\* x & ~0xC0 and x | 0xC0, x of 8 bits
ClearC0(x) == x % 64

SetC0(x) == (x % 64) + 192

\* x with bit n set, clear, toggled
BitOf(x, n) == (x \div (2 ^ n)) % 2

SetBit(x, n) == IF BitOf(x, n) = 1 THEN x ELSE x + 2 ^ n

ClearBit(x, n) == IF BitOf(x, n) = 1 THEN x - 2 ^ n ELSE x

\* x ^ 0x21 and x & ~0x21
Toggle21(x) ==
    LET y == IF BitOf(x, 0) = 1 THEN ClearBit(x, 0) ELSE SetBit(x, 0)
    IN  IF BitOf(y, 5) = 1 THEN ClearBit(y, 5) ELSE SetBit(y, 5)

Clear21(x) == ClearBit(ClearBit(x, 0), 5)

\* SysTick_Handler that also drops a pending miss when the 500 ms are over
SysTick_Handler_ClearsMiss ==
    /\ ticks < MaxTicks
    /\ ticks' = ticks + 1
    /\ LET ms == SysTick_ms_elapsed + 1
       IN  IF collision_detected = 0
           THEN IF ms >= 500
                THEN /\ P8_OUT' = Toggle21(ClearC0(P8_OUT))
                     /\ SysTick_ms_elapsed' = 0
                     /\ failCount' = 0
                ELSE /\ SysTick_ms_elapsed' = ms
                     /\ UNCHANGED <<P8_OUT, failCount>>
           ELSE /\ SysTick_ms_elapsed' = ms
                /\ P8_OUT' = Clear21(SetC0(P8_OUT))
                /\ UNCHANGED failCount
    /\ UNCHANGED collision_detected
    /\ UNCHANGED <<pattern, index, R, G, B, detect, result, held, led, motor, i, pc, hist, shown>>

\* lines 76-95
SysTick_Handler ==
    /\ ticks < MaxTicks
    /\ ticks' = ticks + 1
    /\ LET ms == SysTick_ms_elapsed + 1
       IN  IF collision_detected = 0
           THEN IF ms >= 500
                THEN /\ P8_OUT' = Toggle21(ClearC0(P8_OUT))
                     /\ SysTick_ms_elapsed' = 0
                ELSE /\ SysTick_ms_elapsed' = ms
                     /\ UNCHANGED P8_OUT
           ELSE /\ SysTick_ms_elapsed' = ms
                /\ P8_OUT' = Clear21(SetC0(P8_OUT))
    /\ UNCHANGED collision_detected
    /\ UNCHANGED mainVars

\* the values of SysTick_ms_elapsed at line 143 the model starts from:
\* interrupts are enabled at line 128, so the counter is anywhere in 0..499
TickStarts == {0, 499}

\* the values of P8->OUT the model starts from
P8Starts == {0, 255}

InitTick ==
    /\ pattern = [k \in PatternIndex |-> COLOR_GREEN]
    /\ index = 0
    /\ failCount = 0
    /\ R = 0 /\ G = 0 /\ B = 0
    /\ detect = COLOR_UNKNOWN
    /\ result = -1
    /\ held = FALSE
    /\ led = "OFF"
    /\ motor = "STOP"
    /\ i = 0
    /\ pc = "generate"
    /\ hist = <<>>
    /\ shown = <<>>
    /\ SysTick_ms_elapsed \in TickStarts
    /\ collision_detected = 0
    /\ P8_OUT \in P8Starts
    /\ ticks = 0

NextTick == Next \/ SysTick_Handler

SpecTick == InitTick /\ [][NextTick]_vars

----------------------------------------------------------------------------
(* The classifier on its own: Detect_Color and Hold_Color applied to every *)
(* triple of channel levels                                                *)

InitDetect ==
    /\ pattern = [k \in PatternIndex |-> COLOR_GREEN]
    /\ index = 0
    /\ failCount = 0
    /\ R \in Levels /\ G \in Levels /\ B \in Levels
    /\ detect = COLOR_UNKNOWN
    /\ result = -1
    /\ held = FALSE
    /\ led = "OFF"
    /\ motor = "STOP"
    /\ i = 0
    /\ pc = "call"
    /\ hist = <<>>
    /\ shown = <<>>
    /\ SysTick_ms_elapsed = 0
    /\ collision_detected = 0
    /\ P8_OUT = 0
    /\ ticks = 0

Call_Detect_Color ==
    /\ pc = "call"
    /\ detect' = Detect_Color(R, G, B)
    /\ led' = Detect_Color_LED(R, G, B)
    /\ pc' = "Detect_Color"
    /\ UNCHANGED <<pattern, index, failCount, R, G, B, result, held, motor, i, hist, shown>>
    /\ UNCHANGED tickVars

Call_Hold_Color ==
    /\ pc = "call"
    /\ detect' = Hold_Color(R, G, B)
    /\ held' = Hold_Color_Delay(R, G, B)
    /\ led' = Detect_Color_LED(R, G, B)
    /\ pc' = "Hold_Color"
    /\ UNCHANGED <<pattern, index, failCount, R, G, B, result, motor, i, hist, shown>>
    /\ UNCHANGED tickVars

NextDetect == Call_Detect_Color \/ Call_Hold_Color

SpecDetect == InitDetect /\ [][NextDetect]_vars

----------------------------------------------------------------------------
(* The matcher on its own, one target pattern: CheckPattern called with    *)
(* every sequence of colours, the last MaxHist calls kept in hist          *)

InitMatcher ==
    /\ \E rnd \in [PatternIndex -> RandValues] :
           pattern = [k \in PatternIndex |-> RandColor(rnd[k])]
    /\ index = 0
    /\ failCount = 0
    /\ R = 0 /\ G = 0 /\ B = 0
    /\ detect = COLOR_UNKNOWN
    /\ result = -1
    /\ held = FALSE
    /\ led = "OFF"
    /\ motor = "STOP"
    /\ i = 0
    /\ pc = "call"
    /\ hist = <<>>
    /\ shown = <<>>
    /\ SysTick_ms_elapsed = 0
    /\ collision_detected = 0
    /\ P8_OUT = 0
    /\ ticks = 0

\* what hist keeps of one call: the argument, the return value, and pattern,
\* index and failCount as they were before the call
Call(detected, ret, pat, idx, fc) ==
    [detected |-> detected, ret |-> ret, pattern |-> pat, index |-> idx, failCount |-> fc]

Window(s) == IF Len(s) > MaxHist THEN Tail(s) ELSE s

Test_CheckPattern ==
    /\ pc = "call"
    /\ \E d \in Color_t :
          /\ CheckPattern(d)
          /\ detect' = d
          /\ hist' = Window(Append(hist, Call(d, result', pattern, index, failCount)))
    /\ UNCHANGED <<R, G, B, held, led, motor, i, pc, shown>>
    /\ UNCHANGED tickVars

NextMatcher == Test_CheckPattern

SpecMatcher == InitMatcher /\ [][NextMatcher]_vars

----------------------------------------------------------------------------
(* The matcher and the generator called in any order, from the program's   *)
(* initial state                                                           *)

InitCalls ==
    /\ pattern = [k \in PatternIndex |-> COLOR_GREEN]
    /\ index = 0
    /\ failCount = 0
    /\ R = 0 /\ G = 0 /\ B = 0
    /\ detect = COLOR_UNKNOWN
    /\ result = -1
    /\ held = FALSE
    /\ led = "OFF"
    /\ motor = "STOP"
    /\ i = 0
    /\ pc = "call"
    /\ hist = <<>>
    /\ shown = <<>>
    /\ SysTick_ms_elapsed = 0
    /\ collision_detected = 0
    /\ P8_OUT = 0
    /\ ticks = 0

Call_CheckPattern ==
    /\ pc \in {"call", "CheckPattern", "Generate_Random_Pattern"}
    /\ \E d \in Color_t :
          /\ CheckPattern(d)
          /\ detect' = d
    /\ pc' = "CheckPattern"
    /\ UNCHANGED <<R, G, B, held, led, motor, i, hist, shown>>
    /\ UNCHANGED tickVars

Call_Generate_Random_Pattern ==
    /\ pc \in {"call", "CheckPattern", "Generate_Random_Pattern"}
    /\ \E rnd \in [PatternIndex -> RandValues] : Generate_Random_Pattern(rnd)
    /\ pc' = "Generate_Random_Pattern"
    /\ UNCHANGED <<index, failCount, R, G, B, detect, result, held, led, motor, i, hist, shown>>
    /\ UNCHANGED tickVars

NextCalls == Call_CheckPattern \/ Call_Generate_Random_Pattern

SpecCalls == InitCalls /\ [][NextCalls]_vars

----------------------------------------------------------------------------
(* Properties of Detect_Color, under SpecDetect *)

\* the three tests as the specification words them, on main's R, G, B
GreenTest == G > R + 3000 /\ G > B + 3000

YellowTest == R > 8192 /\ G > 8192 /\ B < 12288

RedTest == R > G + 6000 /\ R > B + 6000

Returned == pc = "Detect_Color"

\* C1: Detect_Color returns the first match of the priority list Green,
\* Yellow, Red, Unknown; so a triple passing the green test is Green even if
\* it passes the yellow or red test too, and one passing the yellow and red
\* tests but not the green test is Yellow.
C1_PriorityOrder ==
    Returned =>
        /\ detect = (IF GreenTest THEN COLOR_GREEN
                     ELSE IF YellowTest THEN COLOR_YELLOW
                     ELSE IF RedTest THEN COLOR_RED
                     ELSE COLOR_UNKNOWN)
        /\ (GreenTest /\ (YellowTest \/ RedTest)) => detect = COLOR_GREEN
        /\ (YellowTest /\ RedTest /\ ~GreenTest) => detect = COLOR_YELLOW

\* a triple that passes the green and the yellow test was classified Green
C1_Witness == Returned /\ GreenTest /\ YellowTest /\ detect = COLOR_GREEN

\* C2: the yellow thresholds are strict: (8192, 8192, 12287) is not Yellow,
\* (8193, 8193, 12287) is Yellow, and no triple with R <= 8192 or G <= 8192
\* or B >= 12288 is Yellow.
C2_YellowStrict ==
    Returned =>
        /\ (R = 8192 /\ G = 8192 /\ B = 12287) => detect # COLOR_YELLOW
        /\ (R = 8193 /\ G = 8193 /\ B = 12287) => detect = COLOR_YELLOW
        /\ (R <= 8192 \/ G <= 8192 \/ B >= 12288) => detect # COLOR_YELLOW

\* the triple just inside the yellow thresholds was classified Yellow
C2_Witness == Returned /\ R = 8193 /\ G = 8193 /\ B = 12287 /\ detect = COLOR_YELLOW

\* C3: Detect_Color is total: every triple gets one of the four colours,
\* (0, 0, 0) and every triple with all channels <= 3000 get Unknown, and the
\* LED is given a defined colour.
C3_TotalUnknown ==
    Returned =>
        /\ detect \in {COLOR_GREEN, COLOR_RED, COLOR_YELLOW, COLOR_UNKNOWN}
        /\ led \in {"GREEN", "RED", "YELLOW", "OFF"}
        /\ (R = 0 /\ G = 0 /\ B = 0) => detect = COLOR_UNKNOWN
        /\ (R <= 3000 /\ G <= 3000 /\ B <= 3000) => detect = COLOR_UNKNOWN

\* a triple with one channel at 3000 and the others at 0 was classified Unknown
C3_Witness == Returned /\ R = 0 /\ G = 3000 /\ B = 0 /\ detect = COLOR_UNKNOWN

\* C17: the sums of the green and red tests do not wrap at 16 bits: no triple
\* with R > 62535 or B > 62535 is Green, none with G > 59535 or B > 59535 is
\* Red, and (63000, 1000, 63000) is not Green.
C17_NoWrap ==
    Returned =>
        /\ (R > 62535 \/ B > 62535) => detect # COLOR_GREEN
        /\ (G > 59535 \/ B > 59535) => detect # COLOR_RED
        /\ (R = 63000 /\ G = 1000 /\ B = 63000) => detect # COLOR_GREEN

\* the triple whose 16-bit sums would wrap to 464 was not classified Green
C17_Witness ==
    Returned /\ R = 63000 /\ G = 1000 /\ B = 63000 /\ detect = COLOR_UNKNOWN

----------------------------------------------------------------------------
(* Properties of Hold_Color, under SpecDetect *)

HoldReturned == pc = "Hold_Color"

\* C12: Hold_Color returns the colour Detect_Color returns for the same
\* triple, and runs the settle delay if and only if that colour is not Unknown.
C12_HoldColor ==
    HoldReturned =>
        /\ detect = Detect_Color(R, G, B)
        /\ detect = (IF GreenTest THEN COLOR_GREEN
                     ELSE IF YellowTest THEN COLOR_YELLOW
                     ELSE IF RedTest THEN COLOR_RED
                     ELSE COLOR_UNKNOWN)
        /\ held <=> (detect # COLOR_UNKNOWN)

\* a bright triple that is no colour was returned as Unknown, without delay
C12_Witness ==
    HoldReturned /\ R = 8192 /\ G = 8192 /\ B = 12287 /\ detect = COLOR_UNKNOWN /\ ~held

----------------------------------------------------------------------------
(* Properties of CheckPattern, under SpecMatcher *)

\* the last n calls
Recent(n) == SubSeq(hist, Len(hist) - n + 1, Len(hist))

\* index, failCount and pattern right after call k of hist
IndexAfter(k) == IF k < Len(hist) THEN hist[k + 1].index ELSE index

FailCountAfter(k) == IF k < Len(hist) THEN hist[k + 1].failCount ELSE failCount

PatternAfter(k) == IF k < Len(hist) THEN hist[k + 1].pattern ELSE pattern

TargetColor == {COLOR_GREEN, COLOR_RED, COLOR_YELLOW}

\* the last PATTERN_LENGTH calls started fresh and gave the pattern in order
FedExactPattern ==
    /\ Len(hist) >= PATTERN_LENGTH
    /\ LET h == Recent(PATTERN_LENGTH)
       IN  /\ h[1].index = 0
           /\ h[1].failCount = 0
           /\ \A k \in 1 .. PATTERN_LENGTH : h[k].detected = h[1].pattern[k - 1]

\* C4: from cursor 0 and failCount 0, CheckPattern called with target[0],
\* target[1], target[2], target[3] returns 1, 1, 1, 2 and leaves the cursor at 0.
C4_ExactSequence ==
    FedExactPattern =>
        LET h == Recent(PATTERN_LENGTH)
        IN  /\ h[1].ret = 1 /\ h[2].ret = 1 /\ h[3].ret = 1 /\ h[4].ret = 2
            /\ index = 0

\* a pattern of more than one colour was fed in order and completed
C4_Witness ==
    /\ FedExactPattern
    /\ result = 2
    /\ pattern[0] # pattern[1]
    /\ pattern[2] # pattern[3]

\* the last two calls: a miss at cursor c with failCount 0, then target[c]
MissThenHit ==
    /\ Len(hist) >= 2
    /\ LET h == Recent(2)
       IN  /\ h[1].failCount = 0
           /\ h[1].detected # COLOR_UNKNOWN
           /\ h[1].detected # h[1].pattern[h[1].index]
           /\ h[2].detected = h[1].pattern[h[1].index]

\* C5 as claimed: at every cursor c of 0..3 a miss and then target[c] return
\* Ignore (-1) and then StepCorrect (1), the miss leaving cursor and target unchanged.
C5_Claimed ==
    MissThenHit =>
        LET h == Recent(2)
        IN  /\ h[1].ret = -1
            /\ h[2].ret = 1
            /\ h[2].index = h[1].index
            /\ h[2].pattern = h[1].pattern

\* C5: a miss and then target[c] return Ignore (-1) and then StepCorrect (1) at
\* a cursor c of 0..2, and Ignore and then SequenceComplete (2) at c = 3; the
\* miss leaves cursor and target unchanged.
C5_Debounce ==
    MissThenHit =>
        LET h == Recent(2)
        IN  /\ h[1].ret = -1
            /\ h[2].ret = (IF h[1].index = PATTERN_LENGTH - 1 THEN 2 ELSE 1)
            /\ h[2].index = h[1].index
            /\ h[2].pattern = h[1].pattern

\* a miss at cursor 2 was followed by the expected colour
C5_Witness == MissThenHit /\ Recent(2)[1].index = 2 /\ result = 1

\* the last two calls: two misses at cursor c, the first with failCount 0
MissThenMiss ==
    /\ Len(hist) >= 2
    /\ LET h == Recent(2)
       IN  /\ h[1].failCount = 0
           /\ h[1].detected # COLOR_UNKNOWN
           /\ h[1].detected # h[1].pattern[h[1].index]
           /\ h[2].detected # COLOR_UNKNOWN
           /\ h[2].detected # h[1].pattern[h[1].index]

\* C6: two misses in a row at a cursor c, the first with failCount 0, return
\* Ignore (-1) and then HardFail (0), and leave cursor 0 and failCount 0.
C6_HardFail ==
    MissThenMiss =>
        LET h == Recent(2)
        IN  /\ h[1].ret = -1
            /\ h[2].ret = 0
            /\ index = 0
            /\ failCount = 0

\* two misses in a row at cursor 3
C6_Witness == MissThenMiss /\ Recent(2)[1].index = 3 /\ result = 0

\* C7: every call of CheckPattern with Unknown returns Ignore (-1) and leaves
\* cursor, failCount and target as they were, however many follow each other.
C7_UnknownIgnored ==
    \A k \in 1 .. Len(hist) :
        hist[k].detected = COLOR_UNKNOWN =>
            /\ hist[k].ret = -1
            /\ IndexAfter(k) = hist[k].index
            /\ FailCountAfter(k) = hist[k].failCount
            /\ PatternAfter(k) = hist[k].pattern

\* three Unknown in a row, at cursor 2 with a miss pending
C7_Witness ==
    /\ Len(hist) >= 3
    /\ \A k \in 1 .. 3 : Recent(3)[k].detected = COLOR_UNKNOWN
    /\ index = 2
    /\ failCount = 1

\* C9: whenever CheckPattern returns SequenceComplete (2) or HardFail (0), the
\* state right after the call is cursor 0 and failCount 0.
C9_ResetOnOutcome ==
    (Len(hist) >= 1 /\ hist[Len(hist)].ret \in {0, 2}) =>
        (index = 0 /\ failCount = 0)

\* the pattern was completed by a call that found a miss pending
C9_Witness ==
    /\ Len(hist) >= 1
    /\ hist[Len(hist)].ret = 2
    /\ hist[Len(hist)].failCount = 1

\* call k of hist gave a colour other than the expected one
Miss(k) ==
    /\ hist[k].detected # COLOR_UNKNOWN
    /\ hist[k].detected # hist[k].pattern[hist[k].index]

\* the calls j..m of hist that gave a colour
Seen(j, m) == {n \in j .. m : hist[n].detected # COLOR_UNKNOWN}

Latest(S) == CHOOSE n \in S : \A m \in S : m <= n

\* C15: CheckPattern returns HardFail (0) exactly when the colour given is a
\* miss and the latest colour given before it, Unknown reads skipped, was a
\* miss that did not itself end in HardFail; the first colour given to a fresh
\* matcher never ends in HardFail.
C15_HardFailExactly ==
    \A k \in 1 .. Len(hist) :
        LET before == Seen(1, k - 1)
        IN  /\ before # {} =>
                  LET j == Latest(before)
                  IN  hist[k].ret = 0 <=> (Miss(k) /\ Miss(j) /\ hist[j].ret # 0)
            /\ (before = {} /\ Len(hist) < MaxHist) => hist[k].ret # 0

\* a miss, two Unknown reads and a miss again ended in HardFail at cursor 2
C15_Witness ==
    /\ Len(hist) >= 4
    /\ LET h == Recent(4)
       IN  /\ h[1].index = 2
           /\ h[1].failCount = 0
           /\ h[1].detected \notin {COLOR_UNKNOWN, h[1].pattern[2]}
           /\ h[2].detected = COLOR_UNKNOWN
           /\ h[3].detected = COLOR_UNKNOWN
           /\ h[4].detected \notin {COLOR_UNKNOWN, h[1].pattern[2]}
           /\ h[4].ret = 0

\* the number of colours given in the calls j..m of hist
Ord(j, m) == Cardinality(Seen(j, m))

\* the colours given in the calls j..k are target[c], target[c+1], ... in
\* order, c the cursor before call j, and no more than the 4 - c left
FedRest(j, k) ==
    LET c == hist[j].index
    IN  \A m \in Seen(j, k) :
            /\ Ord(j, m) <= PATTERN_LENGTH - c
            /\ hist[m].detected = hist[j].pattern[c + Ord(j, m) - 1]

\* C16: from a cursor c and failCount 0 or 1, the colours target[c] ..
\* target[3], with Unknown reads among them, return StepCorrect (1) for each
\* but the last and SequenceComplete (2) for the last, which is colour number
\* 4 - c; the Unknown reads return Ignore (-1) and no call returns HardFail.
C16_RestOfPattern ==
    \A j \in 1 .. Len(hist) : \A k \in j .. Len(hist) :
        FedRest(j, k) =>
            \A m \in j .. k :
                hist[m].ret = (IF hist[m].detected = COLOR_UNKNOWN THEN -1
                               ELSE IF Ord(j, m) = PATTERN_LENGTH - hist[j].index THEN 2
                               ELSE 1)

\* from cursor 1 with a miss pending: two colours of the rest, an Unknown read
\* and the last colour, which completed the pattern
C16_Witness ==
    /\ Len(hist) >= 4
    /\ LET j == Len(hist) - 3
       IN  /\ hist[j].index = 1
           /\ hist[j].failCount = 1
           /\ FedRest(j, Len(hist))
           /\ Ord(j, Len(hist)) = 3
    /\ result = 2

----------------------------------------------------------------------------
(* Properties of CheckPattern and Generate_Random_Pattern, under SpecCalls *)

\* C8: between calls the cursor is a valid index of pattern (0..3) and
\* failCount is 0 or 1, below the threshold 2.
C8_StateBounds ==
    /\ index \in 0 .. 3
    /\ failCount \in {0, 1}

\* the generator was called with the cursor at 3 and a miss pending
C8_Witness == pc = "Generate_Random_Pattern" /\ index = 3 /\ failCount = 1

\* C10: after every call of Generate_Random_Pattern each position of pattern
\* holds Green, Red or Yellow, never Unknown.
C10_NoUnknownTarget ==
    pc = "Generate_Random_Pattern" =>
        \A k \in 0 .. 3 : pattern[k] \in TargetColor /\ pattern[k] # COLOR_UNKNOWN

\* a generated pattern that holds all three colours
C10_Witness ==
    /\ pc = "Generate_Random_Pattern"
    /\ {pattern[k] : k \in 0 .. 3} = TargetColor


----------------------------------------------------------------------------
(* Properties of the control loop, under Spec *)

\* the positions of main after a SequenceComplete, in order
GrantedPath ==
    <<"dispatch", "granted_off", "granted_forward", "granted_backward",
      "granted_stop", "generate", "show">>

\* C11: pattern is written only by the Generate_Random_Pattern step of main,
\* which is taken once at start-up and once on the way from each
\* SequenceComplete to the presentation, and nowhere else; after HardFail main
\* goes to Show_Pattern with the pattern as it was.
C11_PatternWrittenByGenerate ==
    /\ pc = "generate"
    /\ [][ /\ pattern' # pattern => pc = "generate"
           /\ pc = "generate" => pc' = "show"
           /\ pc' = "generate" => (pc = "granted_stop" /\ result = 2)
           /\ \A k \in 1 .. 6 :
                 (pc = GrantedPath[k] /\ result = 2) => pc' = GrantedPath[k + 1]
           /\ (result = 0 /\ pc # "check") => pattern' = pattern
           /\ pc = "wrong_stop" => pc' = "show"
       ]_vars

\* Show_Pattern starts after a HardFail, with a pattern of more than one colour
C11_Witness ==
    /\ pc = "show"
    /\ i = 0
    /\ result = 0
    /\ pattern[0] # pattern[1]

\* the LED colour of a target colour
LedOf(c) ==
    IF c = COLOR_GREEN THEN "GREEN" ELSE IF c = COLOR_RED THEN "RED" ELSE "YELLOW"

\* a whole presentation of pattern: each colour in index order, each followed by OFF
Presented ==
    [n \in 1 .. 2 * PATTERN_LENGTH |->
        IF n % 2 = 1 THEN LedOf(pattern[(n - 1) \div 2]) ELSE "OFF"]

\* C13: during a run of Show_Pattern no sample is taken and CheckPattern is
\* not called; the run shows the 4 colours of pattern in index order, each
\* followed by OFF, and is complete when main samples again.
C13_PresentationAtomic ==
    /\ [](pc \in {"show", "show_gap"} =>
            /\ i \in 0 .. 3
            /\ Len(shown) = (IF pc = "show" THEN 2 * i ELSE 2 * i + 1)
            /\ shown = SubSeq(Presented, 1, Len(shown)))
    /\ [](pc \notin {"generate", "show", "show_gap"} => shown = Presented)
    /\ [][(pc \in {"show", "show_gap"}) =>
            (/\ UNCHANGED <<pattern, index, failCount, R, G, B, detect, result>>
             /\ pc' \in {"show", "show_gap", "sample"})]_vars

\* main is about to sample after a whole presentation of a pattern of three colours
C13_Witness ==
    /\ pc = "sample"
    /\ shown = Presented
    /\ {pattern[k] : k \in 0 .. 3} = TargetColor

\* C18: at every call of Generate_Random_Pattern in main the matcher is fresh:
\* cursor 0 and failCount 0.
C18_FreshMatcher ==
    pc = "generate" => (index = 0 /\ failCount = 0)

\* main is about to generate a pattern after a SequenceComplete
C18_Witness ==
    /\ pc = "generate"
    /\ result = 2
    /\ pattern[0] # pattern[3]

\* C19: the motors are stopped whenever main samples, holds, calls
\* CheckPattern or looks at its result; they run only while SequenceComplete
\* (2) or HardFail (0) is handled, and no step taken with result Ignore (-1) or
\* StepCorrect (1) gives a motor command.
C19_MotorsStopped ==
    /\ [](/\ pc \in {"sample", "hold", "check", "dispatch", "step_off"} => motor = "STOP"
          /\ motor # "STOP" => result \in {0, 2})
    /\ [][(result \in {-1, 1} \/ pc \in {"sample", "hold", "check"}) => motor' = motor]_vars

\* main samples again after the turn of a HardFail, motors stopped
C19_Witness ==
    /\ pc = "sample"
    /\ result = 0
    /\ motor = "STOP"

----------------------------------------------------------------------------
(* Properties of main with SysTick_Handler, under SpecTick *)

\* C14: a step of SysTick_Handler leaves pattern, cursor, failCount and every
\* other variable of main as they are, and a step of main leaves
\* SysTick_ms_elapsed and collision_detected as they are; so what main does,
\* the results of CheckPattern included, is the same with and without ticks.
C14_TickDecoupled ==
    [][ /\ ticks' # ticks =>
              (/\ UNCHANGED <<pattern, index, failCount>>
               /\ UNCHANGED <<R, G, B, detect, result, held, led, motor, i, pc, shown>>)
        /\ pc' # pc => UNCHANGED <<SysTick_ms_elapsed, collision_detected>>
      ]_vars

\* the handler has toggled the LEDs of P8 while a miss was pending at cursor 2
C14_Witness ==
    /\ ticks >= 1
    /\ SysTick_ms_elapsed = 0
    /\ P8_OUT \in {33, 30}
    /\ index = 2
    /\ failCount = 1
    /\ pc = "check"

====
